---- MODULE Spec2Model ----
(***************************************************************************)
(* Brainstorming idea board (src/app.py): the session state kept in        *)
(* st.session_state, the button handlers of the page script, and           *)
(* generate_ideas with its parsing of the service's response text.         *)
(*                                                                         *)
(* A Python str is modelled as a sequence of one-character strings, so     *)
(* that strip, split and slicing are computed as Python computes them.     *)
(* Each run of the page script handles at most one button click and ends   *)
(* in st.rerun(): one action of the model is one such run.                 *)
(***************************************************************************)
EXTENDS Integers, Sequences, FiniteSets, TLC

VARIABLES
    session_state,  \* st.session_state: topic, ideas, liked_ideas, removed_ideas, current_round
    outcome,        \* what the generation service did when the last run called it
    gen,            \* what the last run's call of generate_ideas did (NoCall when it made none)
    last,           \* the button handled by the last run, and the text it was about
    prev,           \* the button handled by the run before, and removed_ideas before that run
    returned        \* the idea texts generate_ideas has returned to a handler since the last reset

vars == <<session_state, outcome, gen, last, prev, returned>>

----------------------------------------------------------------------------
(* Bounds of the model *)

\* current_round is unbounded in the program; the model stops generating here
MaxRound == 3
\* the largest number of lines of a response text in SpecParse
MaxLines == 6

----------------------------------------------------------------------------
(* Python built-ins on str *)

Digits == {"0", "1", "2", "3", "4", "5", "6", "7", "8", "9"}

Whitespace == {" ", "\t", "\r", "\n"}

Min(a, b) == IF a < b THEN a ELSE b

\* set(s)
Elements(s) == {s[i] : i \in 1..Len(s)}

\* s[:n]
Prefix(s, n) == SubSeq(s, 1, Min(n, Len(s)))

RECURSIVE LStrip(_)
LStrip(s) ==
    IF s # <<>> /\ Head(s) \in Whitespace THEN LStrip(Tail(s)) ELSE s

RECURSIVE RStrip(_)
RStrip(s) ==
    IF s # <<>> /\ s[Len(s)] \in Whitespace
        THEN RStrip(SubSeq(s, 1, Len(s) - 1))
        ELSE s

\* str.strip()
Strip(s) == RStrip(LStrip(s))

RECURSIVE SplitFrom(_, _, _)
SplitFrom(text, i, cur) ==
    IF i > Len(text) THEN <<cur>>
    ELSE IF text[i] = "\n" THEN <<cur>> \o SplitFrom(text, i + 1, <<>>)
    ELSE SplitFrom(text, i + 1, Append(cur, text[i]))

\* text.split('\n')
SplitLines(text) == SplitFrom(text, 1, <<>>)

\* the positions where '. ' occurs in idea
DotSpaceAt(idea) ==
    {i \in 1..(Len(idea) - 1) : idea[i] = "." /\ idea[i + 1] = " "}

\* '. ' in idea
HasDotSpace(idea) == DotSpaceAt(idea) # {}

\* idea.split('. ', 1)[1]
AfterDotSpace(idea) ==
    LET i == CHOOSE k \in DotSpaceAt(idea) : \A j \in DotSpaceAt(idea) : k <= j
    IN  SubSeq(idea, i + 2, Len(idea))

----------------------------------------------------------------------------
(* generate_ideas: the parsing of the response text *)

\* line 72: [line.strip() for line in response.text.split('\n') if line.strip()]
RECURSIVE StripNonBlankOf(_)
StripNonBlankOf(lines) ==
    IF lines = <<>> THEN <<>>
    ELSE IF Strip(Head(lines)) # <<>>
        THEN <<Strip(Head(lines))>> \o StripNonBlankOf(Tail(lines))
        ELSE StripNonBlankOf(Tail(lines))

StripNonBlank(text) == StripNonBlankOf(SplitLines(text))

\* a filter that looks at the first character only
IsNumberedFirstOnly(idea) == idea # <<>> /\ idea[1] \in Digits

\* line 74, the filter: any(c.isdigit() for c in idea[:2])
IsNumbered(idea) == \E i \in 1..Len(Prefix(idea, 2)) : idea[i] \in Digits

\* line 74, the element: idea.split('. ', 1)[1] if '. ' in idea else idea
StripNumber(idea) == IF HasDotSpace(idea) THEN AfterDotSpace(idea) ELSE idea

RECURSIVE NumberedOf(_)
NumberedOf(ideas) ==
    IF ideas = <<>> THEN <<>>
    ELSE IF IsNumbered(Head(ideas))
        THEN <<StripNumber(Head(ideas))>> \o NumberedOf(Tail(ideas))
        ELSE NumberedOf(Tail(ideas))

\* lines 72-74
ParseIdeas(text) == NumberedOf(StripNonBlank(text))

\* a slice that is one too long
FirstSix(ideas) == Prefix(ideas, 6)

\* line 80: ideas[:5]
FirstFive(ideas) == Prefix(ideas, 5)

----------------------------------------------------------------------------
(* generate_ideas *)

\* what model.generate_content(prompt) does: it raises, or it returns a response with a text
Raises == [raises |-> TRUE, text |-> <<>>]

Responds(text) == [raises |-> FALSE, text |-> text]

\* the service was not called
NoOutcome == [raises |-> FALSE, text |-> <<>>]

\* lines 38-49: the feedback is part of the prompt only when round_num > 1
FeedbackContext(liked_ideas, removed_ideas, round_num) ==
    IF round_num > 1
        THEN [given |-> TRUE, liked |-> liked_ideas, removed |-> removed_ideas]
        ELSE [given |-> FALSE, liked |-> {}, removed |-> {}]

\* lines 51-63: what the prompt holds of the arguments
Prompt(topic, liked_ideas, removed_ideas, round_num) ==
    [topic |-> topic,
     feedback |-> FeedbackContext(liked_ideas, removed_ideas, round_num)]

NoPrompt == Prompt(<<>>, {}, {}, 1)

\* line 31: the arguments of a call
Arguments(topic, liked_ideas, removed_ideas, round_num) ==
    [topic |-> topic, liked_ideas |-> liked_ideas,
     removed_ideas |-> removed_ideas, round_num |-> round_num]

NoArguments == Arguments(<<>>, {}, {}, 1)

\* the record of a run that did not call generate_ideas
NoCall ==
    [called |-> FALSE, args |-> NoArguments, service |-> FALSE,
     prompt |-> NoPrompt, raised |-> FALSE, result |-> <<>>, notice |-> "none"]

\* lines 33-35: the return for a blank topic, with st.warning and no service call
Refused(args) ==
    [called |-> TRUE, args |-> args, service |-> FALSE,
     prompt |-> NoPrompt, raised |-> FALSE, result |-> <<>>, notice |-> "warning"]

\* a return after the service call of line 66: the prompt sent, the list returned,
\* and "error" when st.error was shown
Returned(args, prompt, result, notice) ==
    [called |-> TRUE, args |-> args, service |-> TRUE,
     prompt |-> prompt, raised |-> FALSE, result |-> result, notice |-> notice]

\* the exception of the service call leaves generate_ideas: nothing is returned
\* and nothing is shown
Raised(args, prompt) ==
    [called |-> TRUE, args |-> args, service |-> TRUE,
     prompt |-> prompt, raised |-> TRUE, result |-> <<>>, notice |-> "none"]

\* a generate_ideas that tests the topic without strip()
generate_ideas_unstripped(topic, liked_ideas, removed_ideas, round_num, served) ==
    LET args == Arguments(topic, liked_ideas, removed_ideas, round_num)
        prompt == Prompt(topic, liked_ideas, removed_ideas, round_num)
    IN  IF topic = <<>> THEN Refused(args)
        ELSE IF served.raises THEN Returned(args, prompt, <<>>, "error")
        ELSE IF served.text = <<>> THEN Returned(args, prompt, <<>>, "error")
        ELSE LET ideas == ParseIdeas(served.text)
             IN  IF ideas = <<>> THEN Returned(args, prompt, <<>>, "error")
                 ELSE Returned(args, prompt, FirstFive(ideas), "none")

\* a generate_ideas without the try/except around the service call
generate_ideas_uncaught(topic, liked_ideas, removed_ideas, round_num, served) ==
    LET args == Arguments(topic, liked_ideas, removed_ideas, round_num)
        prompt == Prompt(topic, liked_ideas, removed_ideas, round_num)
    IN  IF Strip(topic) = <<>> THEN Refused(args)
        ELSE IF served.raises THEN Raised(args, prompt)
        ELSE IF served.text = <<>> THEN Returned(args, prompt, <<>>, "error")
        ELSE LET ideas == ParseIdeas(served.text)
             IN  IF ideas = <<>> THEN Returned(args, prompt, <<>>, "error")
                 ELSE Returned(args, prompt, FirstFive(ideas), "none")

\* lines 31-83, with served what model.generate_content does on line 66; the
\* except clause of line 81 catches what the service call raises
generate_ideas(topic, liked_ideas, removed_ideas, round_num, served) ==
    LET args == Arguments(topic, liked_ideas, removed_ideas, round_num)
        prompt == Prompt(topic, liked_ideas, removed_ideas, round_num)
    IN  IF Strip(topic) = <<>> THEN Refused(args)
        ELSE IF served.raises THEN Returned(args, prompt, <<>>, "error")
        ELSE IF served.text = <<>> THEN Returned(args, prompt, <<>>, "error")
        ELSE LET ideas == ParseIdeas(served.text)
             IN  IF ideas = <<>> THEN Returned(args, prompt, <<>>, "error")
                 ELSE Returned(args, prompt, FirstFive(ideas), "none")

----------------------------------------------------------------------------
(* The session state and the button handlers *)

\* lines 94-103: the session state of a new session
initial_session_state ==
    [topic |-> <<>>, ideas |-> <<>>, liked_ideas |-> {}, removed_ideas |-> {},
     current_round |-> 1]

\* a reset that forgets the feedback sets
reset_keeps_feedback(s) ==
    [s EXCEPT !.topic = <<>>, !.ideas = <<>>, !.current_round = 1]

\* a reset that fills removed_ideas from the liked set it clears
reset_carries_liked(s) ==
    [s EXCEPT !.topic = <<>>, !.ideas = <<>>, !.liked_ideas = {},
              !.removed_ideas = s.liked_ideas, !.current_round = 1]

\* a reset that forgets the round counter
reset_keeps_round(s) ==
    [s EXCEPT !.topic = <<>>, !.ideas = <<>>, !.liked_ideas = {},
              !.removed_ideas = {}]

\* lines 19-29
reset_session_state(s) ==
    [s EXCEPT !.topic = <<>>, !.ideas = <<>>, !.liked_ideas = {},
              !.removed_ideas = {}, !.current_round = 1]

\* an input section rendered whenever no ideas are
InputShownWithoutIdeas(s) == s.ideas = <<>>

\* line 123: the topic input and the generate button are rendered
InputShown(s) == s.topic = <<>>

\* line 155: the ideas, their buttons, the regenerate button and the liked list are rendered
IdeasShown(s) == s.ideas # <<>>

\* a handler that counts the round outside the test of the ideas
initial_generate_count_always(s, topic, g) ==
    [s EXCEPT !.topic = topic, !.ideas = g.result, !.current_round = @ + 1]

\* lines 143-151, with g the return of the call of generate_ideas on line 144
initial_generate(s, topic, g) ==
    LET s1 == [s EXCEPT !.topic = topic, !.ideas = g.result]
    IN  IF s1.ideas # <<>>
            THEN [s1 EXCEPT !.current_round = @ + 1]
            ELSE s1

\* a handler that assigns the result before it tests it, as lines 144-151 do
regenerate_assign_first(s, g) ==
    LET s1 == [s EXCEPT !.ideas = g.result]
    IN  IF s1.ideas # <<>>
            THEN [s1 EXCEPT !.current_round = @ + 1]
            ELSE s1

\* a handler that counts the round outside the test of the result
regenerate_count_always(s, g) ==
    LET s1 == IF g.result # <<>> THEN [s EXCEPT !.ideas = g.result] ELSE s
    IN  [s1 EXCEPT !.current_round = @ + 1]

\* a handler that clears the removed set once a new round has used it
regenerate_clears_removed(s, g) ==
    IF g.result # <<>>
        THEN [s EXCEPT !.ideas = g.result, !.current_round = @ + 1,
                       !.removed_ideas = {}]
        ELSE s

\* lines 193-195, with g the return of the call of generate_ideas on line 187
regenerate(s, g) ==
    IF g.result # <<>>
        THEN [s EXCEPT !.ideas = g.result, !.current_round = @ + 1]
        ELSE s

\* a like that takes the idea out of the removed set
like_exclusive(s, idea) ==
    [s EXCEPT !.liked_ideas = @ \cup {idea}, !.removed_ideas = @ \ {idea}]

\* line 175
like(s, idea) == [s EXCEPT !.liked_ideas = @ \cup {idea}]

\* a remove that also takes the idea off the displayed list
RECURSIVE Without(_, _)
Without(ideas, idea) ==
    IF ideas = <<>> THEN <<>>
    ELSE IF Head(ideas) = idea THEN Without(Tail(ideas), idea)
    ELSE <<Head(ideas)>> \o Without(Tail(ideas), idea)

remove_hides(s, idea) ==
    [s EXCEPT !.removed_ideas = @ \cup {idea}, !.ideas = Without(@, idea)]

\* line 179
remove(s, idea) == [s EXCEPT !.removed_ideas = @ \cup {idea}]

\* a handler that discards from the wrong set
remove_liked_wrong_set(s, idea) == [s EXCEPT !.removed_ideas = @ \ {idea}]

\* line 208
remove_liked(s, idea) == [s EXCEPT !.liked_ideas = @ \ {idea}]

----------------------------------------------------------------------------
(* What the user types and what the service answers *)

Line(n, body) == <<n, ".", " ">> \o body

RECURSIVE JoinLines(_)
JoinLines(lines) ==
    IF lines = <<>> THEN <<>>
    ELSE IF Len(lines) = 1 THEN Head(lines)
    ELSE Head(lines) \o <<"\n">> \o JoinLines(Tail(lines))

\* the texts typed into the topic input: nothing, a blank, a topic
Topics == {<<>>, <<" ">>, <<"t">>}

\* a two-item list; a list with a blank line, a note and an indented item; a
\* six-item list that repeats texts; a text with no numbered line; the empty text
Responses ==
    { JoinLines(<<Line("1", <<"a">>), Line("2", <<"b">>)>>),
      JoinLines(<<Line("1", <<"b">>), <<>>, <<"n", "o", "t", "e">>,
                  <<" ">> \o Line("2", <<"c">>)>>),
      JoinLines(<<Line("1", <<"a">>), Line("2", <<"b">>), Line("3", <<"a">>),
                  Line("4", <<"b">>), Line("5", <<"a">>), Line("6", <<"c">>)>>),
      <<"n", "o", "t", "e">>,
      <<>> }

Outcomes == {Raises} \cup {Responds(text) : text \in Responses}

----------------------------------------------------------------------------
(* The runs of the page script *)

Started == [op |-> "start", arg |-> <<>>, removed |-> {}]

\* the button this run handles, the text it is about, and removed_ideas as the run finds it
Ran(op, arg) ==
    [op |-> op, arg |-> arg, removed |-> session_state.removed_ideas]

Init ==
    /\ session_state = initial_session_state
    /\ outcome = NoOutcome
    /\ gen = NoCall
    /\ last = Started
    /\ prev = Started
    /\ returned = {}

\* lines 115-117
Reset ==
    /\ session_state' = reset_session_state(session_state)
    /\ outcome' = NoOutcome
    /\ gen' = NoCall
    /\ last' = Ran("reset", <<>>)
    /\ prev' = last
    /\ returned' = {}

\* lines 134-152: the generate button is clicked with topic in the input
Generate ==
    /\ InputShown(session_state)
    /\ \E topic \in Topics, served \in Outcomes :
        IF topic # <<>>
            THEN LET g == generate_ideas(topic, session_state.liked_ideas,
                                         session_state.removed_ideas,
                                         session_state.current_round, served)
                 IN  /\ session_state' = initial_generate(session_state, topic, g)
                     /\ outcome' = IF g.service THEN served ELSE NoOutcome
                     /\ gen' = g
                     /\ last' = Ran("generate", topic)
                     /\ returned' = returned \cup Elements(g.result)
            ELSE /\ session_state' = session_state
                 /\ outcome' = NoOutcome
                 /\ gen' = NoCall
                 /\ last' = Ran("generate", topic)
                 /\ returned' = returned
    /\ session_state'.current_round <= MaxRound
    /\ prev' = last

\* lines 174-176
Like ==
    /\ IdeasShown(session_state)
    /\ \E i \in 1..Len(session_state.ideas) :
        /\ session_state' = like(session_state, session_state.ideas[i])
        /\ last' = Ran("like", session_state.ideas[i])
    /\ outcome' = NoOutcome
    /\ gen' = NoCall
    /\ prev' = last
    /\ returned' = returned

\* lines 178-180
Remove ==
    /\ IdeasShown(session_state)
    /\ \E i \in 1..Len(session_state.ideas) :
        /\ session_state' = remove(session_state, session_state.ideas[i])
        /\ last' = Ran("remove", session_state.ideas[i])
    /\ outcome' = NoOutcome
    /\ gen' = NoCall
    /\ prev' = last
    /\ returned' = returned

\* lines 185-196
Regenerate ==
    /\ IdeasShown(session_state)
    /\ \E served \in Outcomes :
        LET g == generate_ideas(session_state.topic, session_state.liked_ideas,
                                session_state.removed_ideas,
                                session_state.current_round, served)
        IN  /\ session_state' = regenerate(session_state, g)
            /\ outcome' = IF g.service THEN served ELSE NoOutcome
            /\ gen' = g
            /\ returned' = returned \cup Elements(g.result)
    /\ session_state'.current_round <= MaxRound
    /\ last' = Ran("regenerate", <<>>)
    /\ prev' = last

\* lines 199-209
RemoveLiked ==
    /\ IdeasShown(session_state)
    /\ \E idea \in session_state.liked_ideas :
        /\ session_state' = remove_liked(session_state, idea)
        /\ last' = Ran("remove_liked", idea)
    /\ outcome' = NoOutcome
    /\ gen' = NoCall
    /\ prev' = last
    /\ returned' = returned

Next ==
    \/ Reset
    \/ Generate
    \/ Like
    \/ Remove
    \/ Regenerate
    \/ RemoveLiked

Spec == Init /\ [][Next]_vars

----------------------------------------------------------------------------
(* generate_ideas on its own: calls with bounded arguments and responses *)

\* the response text of the specification's example
ExampleText ==
    JoinLines(<<
        <<"1", ".", " ", "B", "u", "i", "l", "d", " ", "a", " ",
          "w", "i", "d", "g", "e", "t">>,
        <<"2", ".", " ", "S", "e", "l", "l", " ", "a", " ",
          "g", "a", "d", "g", "e", "t">>,
        <<"n", "o", "t", " ", "n", "u", "m", "b", "e", "r", "e", "d">>,
        <<"3", ".", " ", "S", "h", "i", "p", " ", "f", "a", "s", "t">> >>)

ExampleIdeas ==
    << <<"B", "u", "i", "l", "d", " ", "a", " ", "w", "i", "d", "g", "e", "t">>,
       <<"S", "e", "l", "l", " ", "a", " ", "g", "a", "d", "g", "e", "t">>,
       <<"S", "h", "i", "p", " ", "f", "a", "s", "t">> >>

\* a numbered line, a blank line, a line without number, a numbered line indented
\* by two blanks
ParseLines ==
    { Line("1", <<"a">>),
      <<" ">>,
      <<"n", "o">>,
      <<" ", " ">> \o Line("2", <<"c">>) }

\* a line whose second character is a digit
SecondIsDigit == <<"b", "4">>

\* every text of at most MaxLines of these lines, and some texts of their own:
\* the example, digits in second place, a marker with a parenthesis, a number
\* after the second character, tabs and carriage returns
ParseTexts ==
    UNION { {JoinLines(lines) : lines \in [1..n -> ParseLines]} : n \in 0..MaxLines }
    \cup { ExampleText,
            SecondIsDigit,
            JoinLines(<<<<"n", "o">>, SecondIsDigit, <<>>, Line("1", <<"a">>),
                        <<" ", "5">>, <<"x", "y", "6">>>>),
            <<"3", ")", " ", "d", ".", " ", "e">>,
            <<"x", "y", " ", "5", ".", " ", "f">>,
            <<"\t", "7", ".", " ", "g", " ", "\r", "\n", "\n", "8", ".", "h">> }

ParseOutcomes == {Raises} \cup {Responds(text) : text \in ParseTexts}

InitParse ==
    /\ session_state = initial_session_state
    /\ outcome \in ParseOutcomes
    /\ gen = NoCall
    /\ last = Started
    /\ prev = Started
    /\ returned = {}

\* one call of generate_ideas, served by outcome
CallGenerateIdeas ==
    /\ ~gen.called
    /\ \E topic \in Topics, round_num \in 1..2 :
        /\ gen' = generate_ideas(topic, {}, {}, round_num, outcome)
        /\ last' = [op |-> "call", arg |-> topic, removed |-> {}]
    /\ prev' = last
    /\ UNCHANGED <<session_state, outcome, returned>>

NextParse == CallGenerateIdeas

SpecParse == InitParse /\ [][NextParse]_vars

----------------------------------------------------------------------------
(* generate_ideas on its own: calls with every kind of argument *)

\* the topics passed: empty, of whitespace only, and with text
CallTopics == {<<>>, <<" ">>, <<"\t", " ">>, <<"t">>, <<" ", "t">>}

\* the idea texts of the feedback sets passed
CallIdeas == {<<"a">>, <<"b">>}

InitCall ==
    /\ session_state = initial_session_state
    /\ outcome \in Outcomes
    /\ gen = NoCall
    /\ last = Started
    /\ prev = Started
    /\ returned = {}

\* one call of generate_ideas with any topic, feedback sets and round number
CallWithArguments ==
    /\ ~gen.called
    /\ \E topic \in CallTopics, liked_ideas \in SUBSET CallIdeas,
          removed_ideas \in SUBSET CallIdeas, round_num \in 1..MaxRound :
        /\ gen' = generate_ideas(topic, liked_ideas, removed_ideas, round_num, outcome)
        /\ last' = [op |-> "call", arg |-> topic, removed |-> removed_ideas]
    /\ prev' = last
    /\ UNCHANGED <<session_state, outcome, returned>>

NextCall == CallWithArguments

SpecCall == InitCall /\ [][NextCall]_vars

----------------------------------------------------------------------------
(* The claims about the session (checked under Spec) *)

\* the run that led to the primed state called generate_ideas
Generated == gen'.called /\ last'.op \in {"generate", "regenerate"}

\* C1: current_round increases by exactly 1 on each generation call (initial
\* generate or regenerate) that returns a non-empty result, and is unchanged by
\* every generation call that returns an empty result.
RoundCountsSuccessfulGenerations ==
    [][Generated =>
         session_state'.current_round =
             session_state.current_round + (IF gen'.result # <<>> THEN 1 ELSE 0)]_vars

\* C1, its example: from round 1 a successful generate, a failed regenerate and a
\* successful regenerate have run, and the round is 3 (the regenerate before the
\* last one found round 2 and left it, so it failed).
RoundThreeAfterFailedRegenerate ==
    /\ session_state.current_round = 3
    /\ last.op = "regenerate" /\ gen.result # <<>>
    /\ prev.op = "regenerate"

\* C2: when generate is clicked with a non-empty topic and generate_ideas returns
\* an empty result, the session remains in AwaitingInput (the stored topic is
\* still unset, so the topic input is still shown) and the round is not incremented.
FailedGenerateStaysAwaitingInput ==
    [][(last'.op = "generate" /\ last'.arg # <<>> /\ gen'.called /\ gen'.result = <<>>)
         => /\ session_state'.topic = <<>>
            /\ InputShown(session_state')
            /\ session_state'.current_round = session_state.current_round]_vars

\* C3: when regenerate is clicked and generate_ideas returns an empty result, the
\* session is unchanged: ideas, current_round, topic, liked_ideas, removed_ideas.
FailedRegenerateChangesNothing ==
    [][(last'.op = "regenerate" /\ gen'.called /\ gen'.result = <<>>)
         => /\ session_state'.ideas = session_state.ideas
            /\ session_state'.current_round = session_state.current_round
            /\ session_state'.topic = session_state.topic
            /\ session_state'.liked_ideas = session_state.liked_ideas
            /\ session_state'.removed_ideas = session_state.removed_ideas]_vars

\* C3: a regenerate has failed in a session with ideas and both kinds of feedback
RegenerateFailedWithFeedback ==
    /\ last.op = "regenerate" /\ gen.called /\ gen.result = <<>>
    /\ session_state.ideas # <<>>
    /\ session_state.liked_ideas # {}
    /\ session_state.removed_ideas # {}

\* C4: clicking generate with an empty or whitespace-only topic changes no field
\* of the session, and the topic input is shown again.
BlankTopicChangesNothing ==
    [][(last'.op = "generate" /\ Strip(last'.arg) = <<>>)
         => /\ session_state' = session_state
            /\ InputShown(session_state')]_vars

\* C5: in every reachable state a generation action (generate or regenerate) is
\* offered, so that reset is never the only button.
GenerationAlwaysOffered ==
    InputShown(session_state) \/ IdeasShown(session_state)

\* C6: reset is available in every reachable state, and after it the session is
\* exactly topic "", ideas [], liked_ideas {}, removed_ideas {}, current_round 1.
ResetAvailableAndTotal ==
    /\ ENABLED Reset
    /\ last.op = "reset" =>
          /\ session_state.topic = <<>>
          /\ session_state.ideas = <<>>
          /\ session_state.liked_ideas = {}
          /\ session_state.removed_ideas = {}
          /\ session_state.current_round = 1
          /\ InputShown(session_state) /\ ~IdeasShown(session_state)

\* C6: a reset has run in a session that had removed ideas (and so a topic,
\* ideas and a round above 1)
ResetAfterFeedback == last.op = "reset" /\ last.removed # {}

\* C7: liking X and then at once clicking remove-from-liked for X leaves
\* liked_ideas without X and removed_ideas as it was before the two actions.
LikeThenUnlikeRestores ==
    (last.op = "remove_liked" /\ prev.op = "like" /\ prev.arg = last.arg)
        => /\ last.arg \notin session_state.liked_ideas
           /\ session_state.removed_ideas = prev.removed

\* C7: X was liked and then taken out of the liked list, while removed_ideas holds X
UnlikedRightAfterLike ==
    /\ last.op = "remove_liked" /\ prev.op = "like" /\ prev.arg = last.arg
    /\ last.arg \in session_state.removed_ideas

\* C8: like and remove-from-liked never change removed_ideas, and remove never
\* changes liked_ideas (so an idea may be in both sets: LikedAndRemoved).
FeedbackSetsIndependent ==
    [][/\ last'.op \in {"like", "remove_liked"}
            => session_state'.removed_ideas = session_state.removed_ideas
       /\ last'.op = "remove"
            => session_state'.liked_ideas = session_state.liked_ideas]_vars

\* C8: the same idea text is in liked_ideas and in removed_ideas, whichever of
\* the two it entered last
LikedAndRemoved ==
    /\ last.op = "like" /\ prev.op = "remove" /\ prev.arg = last.arg
    /\ last.arg \in session_state.liked_ideas \cap session_state.removed_ideas

\* C9: ideas has at most 5 entries in every reachable state, and after each
\* successful regeneration it is exactly the sequence that call returned.
IdeasBoundedAndReplaced ==
    /\ Len(session_state.ideas) <= 5
    /\ (last.op = "regenerate" /\ gen.result # <<>>)
          => session_state.ideas = gen.result

\* C9: a regeneration was served six numbered lines and ideas holds five of them
RegeneratedFiveOfSix ==
    /\ last.op = "regenerate" /\ gen.result # <<>>
    /\ Len(ParseIdeas(outcome.text)) = 6
    /\ Len(session_state.ideas) = 5

----------------------------------------------------------------------------
(* The claims about the parsing (checked under SpecParse) *)

\* a call of generate_ideas got a response text from the service
Served == gen.called /\ gen.service /\ ~outcome.raises

\* the line is not blank and has a digit among its first two characters
KeptAsWritten(line) ==
    /\ Strip(line) # <<>>
    /\ \E i \in 1..Min(2, Len(line)) : line[i] \in Digits

\* the line is not blank and, with the whitespace around it trimmed, has a digit
\* among its first two characters
KeptOnceTrimmed(line) ==
    /\ Strip(line) # <<>>
    /\ \E i \in 1..Min(2, Len(Strip(line))) : Strip(line)[i] \in Digits

\* item is what is left of line without the whitespace around it and without a
\* marker at its start
IsRestOf(item, line) ==
    LET t == Strip(line)
    IN  /\ Len(item) <= Len(t)
        /\ item = SubSeq(t, Len(t) - Len(item) + 1, Len(t))

\* result holds, in their order, the first 5 of the lines kept
IsFirstFiveOf(result, kept) ==
    /\ Len(result) = Min(5, Len(kept))
    /\ \A i \in 1..Len(result) : IsRestOf(result[i], kept[i])

\* C10 as stated: the parsed result is, in original order, the non-blank lines
\* that have a digit among their first two characters, all other lines dropped,
\* truncated to the first 5; the example text yields exactly its three ideas.
ParsedLinesAsWritten ==
    Served =>
        /\ IsFirstFiveOf(gen.result, SelectSeq(SplitLines(outcome.text), KeptAsWritten))
        /\ outcome.text = ExampleText => gen.result = ExampleIdeas

\* C10 amended: the same of the non-blank lines that have a digit among the first
\* two characters left once the whitespace around the line is trimmed.
ParsedLinesOnceTrimmed ==
    Served =>
        /\ IsFirstFiveOf(gen.result, SelectSeq(SplitLines(outcome.text), KeptOnceTrimmed))
        /\ outcome.text = ExampleText => gen.result = ExampleIdeas

\* C10: a text of six kept lines, indented ones among them, was parsed to five ideas
ParsedFiveOfSixKept ==
    /\ Served
    /\ Len(SelectSeq(SplitLines(outcome.text), KeptOnceTrimmed)) = 6
    /\ Len(gen.result) = 5
    /\ gen.result[2] = <<"c">> /\ gen.result[5] = <<"a">>

\* the number of digits the line starts with
RECURSIVE DigitRun(_)
DigitRun(line) ==
    IF line # <<>> /\ Head(line) \in Digits THEN 1 + DigitRun(Tail(line)) ELSE 0

\* the line starts with a marker "N. ": digits, a period, a space
HasLeadingMarker(line) ==
    LET n == DigitRun(line)
    IN  /\ n >= 1
        /\ Len(line) >= n + 2
        /\ line[n + 1] = "." /\ line[n + 2] = " "

\* the line without its leading marker, or as it is when it has none
WithoutLeadingMarker(line) ==
    IF HasLeadingMarker(line)
        THEN SubSeq(line, DigitRun(line) + 3, Len(line))
        ELSE line

\* C11: of every kept line only a leading "N. " marker is stripped; a kept line
\* that does not start with such a marker is returned as it is (trimmed), with
\* none of its text removed.
OnlyLeadingMarkerStripped ==
    Served =>
        LET kept == SelectSeq(SplitLines(outcome.text), KeptOnceTrimmed)
        IN  \A i \in 1..Len(gen.result) :
                gen.result[i] = WithoutLeadingMarker(Strip(kept[i]))

----------------------------------------------------------------------------
(* The claims about the failures of generate_ideas *)

\* the topic is empty or of whitespace only
IsBlank(topic) == \A i \in 1..Len(topic) : topic[i] \in Whitespace

\* C12: for an empty or whitespace-only topic generate_ideas returns an empty
\* sequence and issues a warning without calling the generation service, for
\* every round_num and every liked/removed set (checked under SpecCall).
BlankTopicRefusedWithoutCall ==
    (gen.called /\ IsBlank(gen.args.topic))
        => /\ gen.result = <<>>
           /\ gen.notice = "warning"
           /\ ~gen.service
           /\ ~gen.raised

\* C12: a call with a topic of a tab and a blank, round 2 and both feedback sets
\* non-empty was refused
BlankTopicRefusedInRoundTwo ==
    /\ gen.called /\ gen.args.topic = <<"\t", " ">>
    /\ gen.args.round_num = 2
    /\ gen.args.liked_ideas # {} /\ gen.args.removed_ideas # {}
    /\ gen.notice = "warning"

\* the service call failed: it raised, its text is empty, or no line of its text
\* survives the numbered-line filter
ServiceFailed ==
    \/ outcome.raises
    \/ outcome.text = <<>>
    \/ SelectSeq(SplitLines(outcome.text), KeptOnceTrimmed) = <<>>

\* C13: every service-side failure of generate_ideas (empty response text, zero
\* lines surviving the filter, an exception of the service call) yields an empty
\* sequence and an error notification, and no exception leaves generate_ideas
\* (checked under SpecParse).
ServiceFailureAbsorbed ==
    (gen.called /\ gen.service /\ ServiceFailed)
        => /\ gen.result = <<>>
           /\ gen.notice = "error"
           /\ ~gen.raised

\* C13: the service call raised and generate_ideas returned the empty list
ServiceRaisedAndAbsorbed ==
    /\ gen.called /\ gen.service /\ outcome.raises
    /\ gen.result = <<>> /\ gen.notice = "error"

----------------------------------------------------------------------------
(* Further claims about the session (checked under Spec) *)

\* C14: reset is idempotent: a reset that follows a reset leaves the session as
\* the first reset left it.
ResetIdempotent ==
    [][(last.op = "reset" /\ last'.op = "reset")
         => session_state' = session_state]_vars

\* C14: two resets have run in a row, the first in a session with removed ideas
ResetTwice == last.op = "reset" /\ prev.op = "reset" /\ prev.removed # {}

\* the texts of the list
Texts(ideas) == {ideas[i] : i \in 1..Len(ideas)}

\* C15: like, remove and remove-from-liked stay in RoundDisplayed and leave
\* topic, ideas and current_round unchanged; remove adds the idea's text to
\* removed_ideas and does not take it out of the displayed ideas.
FeedbackKeepsRound ==
    [][last'.op \in {"like", "remove", "remove_liked"}
         => /\ IdeasShown(session_state) /\ IdeasShown(session_state')
            /\ session_state'.topic = session_state.topic
            /\ session_state'.ideas = session_state.ideas
            /\ session_state'.current_round = session_state.current_round
            /\ last'.op = "remove"
                 => /\ last'.arg \in session_state'.removed_ideas
                    /\ last'.arg \in Texts(session_state'.ideas)]_vars

\* C15: an idea was removed, it is in removed_ideas and it is still displayed
RemovedStillDisplayed ==
    /\ last.op = "remove"
    /\ last.arg \notin last.removed
    /\ last.arg \in session_state.removed_ideas
    /\ last.arg \in Texts(session_state.ideas)

\* C16: in every reachable state ideas is non-empty if and only if
\* current_round >= 2 (so the round displayed, current_round - 1, is >= 1), and
\* every regenerate calls generate_ideas with round_num > 1, so that the prompt
\* carries the session's liked_ideas and removed_ideas as feedback.
IdeasIffRoundStarted ==
    /\ session_state.ideas # <<>> <=> session_state.current_round >= 2
    /\ IdeasShown(session_state) => session_state.current_round - 1 >= 1
    /\ last.op = "regenerate"
         => /\ gen.called /\ gen.service
            /\ gen.args.round_num > 1
            /\ gen.prompt.feedback =
                 [given |-> TRUE, liked |-> session_state.liked_ideas,
                  removed |-> session_state.removed_ideas]

\* C16: a regenerate in round 2 sent a prompt with liked and removed ideas
RegeneratedWithFeedback ==
    /\ last.op = "regenerate"
    /\ gen.args.round_num = 2
    /\ gen.prompt.feedback.given
    /\ gen.prompt.feedback.liked # {} /\ gen.prompt.feedback.removed # {}

\* C17: in every reachable state an empty stored topic implies ideas [],
\* liked_ideas {}, removed_ideas {} and current_round 1; hence every initial
\* generation call is made with round_num 1 and empty feedback sets.
NoTopicNoProgress ==
    /\ session_state.topic = <<>>
         => /\ session_state.ideas = <<>>
            /\ session_state.liked_ideas = {}
            /\ session_state.removed_ideas = {}
            /\ session_state.current_round = 1
    /\ (last.op = "generate" /\ gen.called)
         => /\ gen.args.round_num = 1
            /\ gen.args.liked_ideas = {}
            /\ gen.args.removed_ideas = {}

\* C17: an initial generation call was made right after the reset of a session
\* that had removed ideas
GeneratedAfterReset ==
    /\ last.op = "generate" /\ gen.called
    /\ prev.op = "reset" /\ prev.removed # {}

\* C18: once the stored topic is non-empty no action other than reset changes
\* it, and the initial generate action is not available until reset.
TopicKeptUntilReset ==
    [][(session_state.topic # <<>> /\ last'.op # "reset")
         => /\ session_state'.topic = session_state.topic
            /\ ~InputShown(session_state)
            /\ last'.op # "generate"]_vars

\* C18: with a topic stored, a like was followed by a successful regenerate
TopicKeptOverRegenerate ==
    /\ session_state.topic = <<"t">>
    /\ last.op = "regenerate" /\ gen.result # <<>>
    /\ prev.op = "like"

\* C19: between resets removed_ideas only grows, and every member of liked_ideas
\* or removed_ideas is the text of an idea that a successful generation call has
\* returned since the last reset.
FeedbackGrowsFromReturned ==
    /\ [](session_state.liked_ideas \cup session_state.removed_ideas \subseteq returned)
    /\ [][last'.op # "reset"
            => session_state.removed_ideas \subseteq session_state'.removed_ideas]_vars

\* C19: after a regeneration removed_ideas holds a text of an earlier round that
\* is no longer displayed, and liked_ideas a text of the round displayed
FeedbackOfTwoRounds ==
    /\ \E idea \in session_state.removed_ideas :
           idea \notin Texts(session_state.ideas)
    /\ \E idea \in session_state.liked_ideas :
           idea \in Texts(session_state.ideas)
    /\ last.op = "like" /\ session_state.current_round = 3

====
